---- MODULE Spec2Model ----
(***************************************************************************)
(* GDPR erasure job: main (the run coordinator), runGdprSqlWithTempTable   *)
(* (the relational purge, one transaction per chunk) and                   *)
(* deleteUsersAmplitude (the external eraser: batches under a p-limit      *)
(* limiter, with retry and backoff).                                       *)
(*                                                                         *)
(* Identifiers are the strings "1", "2", ... written as the naturals       *)
(* 1, 2, ...  A JSON number n of the input file is written -n: String(n)   *)
(* is the identifier n.                                                    *)
(***************************************************************************)
EXTENDS Integers, Sequences, FiniteSets, TLC

\* ---- bounds of the model ------------------------------------------------
MaxIds == 2            \* distinct identifiers an input file may hold
MaxInputLen == 3       \* elements of the input array
MaxChunkSize == 2      \* DB_CHUNK_SIZE ranges over 0..MaxChunkSize and Infinity
MaxBatchSize == 2      \* AMP_BATCH_SIZE ranges over 0..MaxBatchSize
MaxConcurrency == 2    \* AMP_CONCURRENCY ranges over 0..MaxConcurrency
MaxAttemptsBound == 2  \* AMP_MAX_ATTEMPTS ranges over 0..MaxAttemptsBound
MaxBackoffAttempts == 7  \* AMP_MAX_ATTEMPTS ranges over 1..MaxBackoffAttempts in BackoffSpec

MaxLiveAttempts == 1   \* AMP_MAX_ATTEMPTS ranges over 1..MaxLiveAttempts in LiveSpec
MaxTxn == 3            \* transactions a purge that never advances may open
MaxPublicId == 1        \* delete-users.ts: public ids range over 0..MaxPublicId
MaxPublicIds == 2       \* delete-users.ts: length of args.publicIds
MaxRetries == 2         \* delete-users.ts: MAX_RETRIES ranges over 0..MaxRetries

\* Number(... || Infinity): larger than every list length of the model.
Infinity == 1000000

\* calculateBackoff: baseMs = 1000, capMs = 15000, Math.random() * 250
baseMs == 1000
capMs == 15000
jitterMs == 250

\* ---- helpers --------------------------------------------------------------
Min(a, b) == IF a < b THEN a ELSE b

Range(s) == {s[i] : i \in DOMAIN s}

RECURSIVE Flatten(_)
Flatten(ss) == IF ss = <<>> THEN <<>> ELSE Head(ss) \o Flatten(Tail(ss))

RECURSIVE SeqsUpTo(_, _)
SeqsUpTo(S, n) ==
  IF n = 0 THEN {<<>>}
  ELSE LET shorter == SeqsUpTo(S, n - 1)
       IN  shorter \cup {Append(s, x) : s \in {t \in shorter : Len(t) = n - 1}, x \in S}

\* Variant of Slice: the end index is taken inclusive.
SliceInclusive(arr, from, to) == SubSeq(arr, from + 1, Min(to + 1, Len(arr)))

\* Array.prototype.slice(from, to) on a 0-based array, as a 1-based SubSeq.
Slice(arr, from, to) == SubSeq(arr, from + 1, Min(to, Len(arr)))

\* ---- the input file -------------------------------------------------------
\* String(v) of an element of the parsed array.
StringOf(v) == IF v < 0 THEN 0 - v ELSE v

\* Variant of Dedup: parsedIds.map(String), without the Set.
DedupNone(arr) == [i \in DOMAIN arr |-> StringOf(arr[i])]

\* [...new Set(parsedIds.map(String))]: first occurrences, in input order.
RECURSIVE Dedup(_)
Dedup(arr) ==
  IF arr = <<>> THEN <<>>
  ELSE LET rest == Dedup(SubSeq(arr, 1, Len(arr) - 1))
           x == StringOf(arr[Len(arr)])
       IN  IF x \in Range(rest) THEN rest ELSE Append(rest, x)

\* The elements of an input array: strings (v) and JSON numbers (-v).
Elements == (1..MaxIds) \cup {0 - v : v \in 1..MaxIds}

\* Input arrays up to renaming of identifiers: the k-th new identifier is k.
InputArrays ==
  {s \in SeqsUpTo(Elements, MaxInputLen) :
     \A i \in DOMAIN s : \A v \in 1..MaxIds :
        (v < StringOf(s[i])) => (\E j \in 1..(i - 1) : StringOf(s[j]) = v)}

\* What readFile + JSON.parse yield: an array, a JSON value that is no
\* array, or a throw (missing file, malformed JSON).
Inputs == [kind : {"array"}, arr : InputArrays]
            \cup [kind : {"notArray", "unreadable"}, arr : {<<>>}]

VARIABLES
  input,       \* what readFile and JSON.parse of ids.json yield; Consumed once main has used it
  dryRun,      \* process.env.DRY_RUN === "true"
  aborted,     \* main: the flag the SIGTERM/SIGINT handlers set
  pc,          \* main: where the coordinator is
  allIds,      \* main: the deduplicated identifiers
  report,      \* main: the GdprReport
  dbOutcome,   \* main: how the await of runGdprSqlWithTempTable ended
  error,       \* main: the error caught by the try block, "none" if none
  exitCode,    \* process.exit status, -1 while running
  files,       \* output files written
  chunkSize,   \* runGdprSqlWithTempTable: option
  start,       \* runGdprSqlWithTempTable: loop index
  dbpc,        \* runGdprSqlWithTempTable: next step of the chunk
  txns,        \* runGdprSqlWithTempTable: transactions begun so far
  checkedOut,  \* pool: clients connected and not released
  poolOpen,    \* pool: created and not ended
  openTxns,    \* database: transactions begun and neither committed nor rolled back
  sqlLog,      \* database: statements received, in order
  staging,     \* database: rows of ids_to_delete in the session, <<-1>> if absent
  committed,   \* database: the chunks whose transaction committed
  batchSize,   \* deleteUsersAmplitude: option
  concurrentBatches,
  maxAttempts,
  chunks,      \* deleteUsersAmplitude: the batches
  batch,       \* deleteUsersAmplitude: per batch, the state of its task
  results,     \* deleteUsersAmplitude: the result list
  args,        \* delete-users.ts: the validated arguments (publicIds, dryRun)
  apiKeys,     \* delete-users.ts: config.amplitude.apiKey and secretKey are both set
  maxRetries,  \* delete-users.ts: config.maxRetries
  users,       \* delete-users.ts database: public ids with a committed row in users
  cursor,      \* executeDeleteions: position of publicId in args.publicIds
  step,        \* delete-users.ts: the await the script is at
  stmts,       \* DatabaseService.deleteUser: statements sent in the current call
  clients,     \* delete-users.ts pool: clients connected and not released
  ampAttempt,  \* AmplitudeService.deleteUser: attempt
  posts,       \* AmplitudeService.deleteUser: axios.post calls for the current user
  waited,      \* AmplitudeService.deleteUser: milliseconds of backoff for the current user
  resultsSuccessful,  \* executeDeleteions: results.successful
  resultsFailed,      \* executeDeleteions: results.failed
  totalAmplitudeDeleted,
  status       \* delete-users.ts: process.exit status, -1 while running

mainVars == <<input, dryRun, aborted, pc, allIds, report, dbOutcome, error, exitCode, files>>
dbVars == <<chunkSize, start, dbpc, txns, checkedOut, poolOpen, openTxns, sqlLog, staging, committed>>
ampVars == <<batchSize, concurrentBatches, maxAttempts, chunks, batch, results>>
scriptVars == <<args, apiKeys, maxRetries, users, cursor, step, stmts, clients,
                ampAttempt, posts, waited, resultsSuccessful, resultsFailed,
                totalAmplitudeDeleted, status>>
vars == <<mainVars, dbVars, ampVars, scriptVars>>

NoTable == <<-1>>

\* parsedIds is dead after the deduplication.
Consumed == [kind |-> "consumed", arr |-> <<>>]

\* const report: GdprReport = {...}
InitialReport ==
  [totalIds |-> 0, uniqueIds |-> 0, dbStatus |-> "success", dbError |-> FALSE,
   successful |-> 0, failed |-> 0, results |-> <<>>]

\* scripts/delete-users.ts is a separate program: it is not running while
\* gdpr-delete runs.
ScriptIdle ==
  /\ args = [publicIds |-> <<>>, dryRun |-> FALSE]
  /\ apiKeys = FALSE /\ maxRetries = 0 /\ users = {}
  /\ cursor = 1 /\ step = "exited" /\ stmts = <<>> /\ clients = 0
  /\ ampAttempt = 0 /\ posts = 0 /\ waited = 0 /\ resultsSuccessful = <<>> /\ resultsFailed = <<>>
  /\ totalAmplitudeDeleted = 0 /\ status = -1

Init ==
  /\ ScriptIdle
  /\ input \in Inputs
  /\ dryRun \in BOOLEAN
  /\ aborted = FALSE
  /\ pc = "start"
  /\ allIds = <<>>
  /\ report = InitialReport
  /\ dbOutcome = "none"
  /\ error = "none"
  /\ exitCode = -1
  /\ files = {}
  /\ chunkSize = 0 /\ start = 0 /\ dbpc = "idle" /\ txns = 0
  /\ checkedOut = 0 /\ poolOpen = FALSE
  /\ openTxns = 0 /\ sqlLog = <<>> /\ staging = NoTable /\ committed = <<>>
  /\ batchSize = 0 /\ concurrentBatches = 0 /\ maxAttempts = 0
  /\ chunks = <<>> /\ batch = <<>> /\ results = <<>>

\* ---- deleteUsersAmplitude: the task of one batch -----------------------------
Entry(id, ok, err) == [id |-> id, ok |-> ok, error |-> err]

\* Variant of PushAll: only the first identifier of the chunk is recorded.
PushFirstOnly(res, chunk, ok, err) == Append(res, Entry(chunk[1], ok, err))

\* for (const id of chunk) results.push({ id, ok, error })
PushAll(res, chunk, ok, err) ==
  res \o [i \in 1..Len(chunk) |-> Entry(chunk[i], ok, err)]

\* Variant of Found: the test looks at the list, not at the id.
FoundAny(res, id) == res # <<>>

\* results.find((r) => r.id === id)
Found(res, id) == \E i \in DOMAIN res : res[i].id = id

\* Variant of PushMissing: the loop without the results.find test.
PushMissingNoFind(res, chunk) == PushAll(res, chunk, FALSE, "exhausted")

\* Variant of PushMissing: the ids not found are recorded as deleted.
PushMissingAsOk(res, chunk) ==
  res \o SelectSeq([i \in 1..Len(chunk) |-> Entry(chunk[i], TRUE, "none")],
                   LAMBDA e : ~Found(res, e.id))

\* The loop after the attempts: push "Retry exhausted" for the ids not found.
RECURSIVE PushMissing(_, _)
PushMissing(res, chunk) ==
  IF chunk = <<>> THEN res
  ELSE PushMissing(IF Found(res, Head(chunk)) THEN res
                   ELSE Append(res, Entry(Head(chunk), FALSE, "exhausted")),
                   Tail(chunk))

\* Variant of Batches: a last batch shorter than size is left out.
RECURSIVE BatchesDropTail(_, _, _)
BatchesDropTail(ids, size, i) ==
  IF i + size <= Len(ids)
  THEN <<Slice(ids, i, i + size)>> \o BatchesDropTail(ids, size, i + size)
  ELSE <<>>

\* The chunks loop: for (i = 0; i < publicIds.length; i += batchSize), batchSize >= 1.
RECURSIVE Batches(_, _, _)
Batches(ids, size, i) ==
  IF i < Len(ids) THEN <<Slice(ids, i, i + size)>> \o Batches(ids, size, i + size)
  ELSE <<>>

\* Variant of LoopContinues: attempt <= maxAttempts.
LoopContinuesInclusive(attempt, max) == attempt <= max

\* attempt < maxAttempts
LoopContinues(attempt, max) == attempt < max

\* Variant of MayAdmit: every task starts at once (Promise.all without the limiter).
MayAdmitAlways(active, conc) == TRUE

\* Variant of MayAdmit: the limiter keeps one slot unused.
MayAdmitBelow(active, conc) == active + 1 < conc

\* p-limit: a queued task starts while activeCount < concurrency.
MayAdmit(active, conc) == active < conc

Active(bs) == {b \in DOMAIN bs : bs[b].pc \in {"fetch", "body", "sleep"}}
Queued(bs) == {b \in DOMAIN bs : bs[b].pc = "queued"}
AllDone(bs) == \A b \in DOMAIN bs : bs[b].pc = "done"
FirstQueued(bs) == CHOOSE b \in Queued(bs) : \A c \in Queued(bs) : b <= c

\* A task: where it is (queued, fetch, body, sleep, done), the loop variable,
\* the fetches it has issued, how it returned, and, while it sleeps, the delay
\* it waits (0 otherwise).
QueuedTask == [pc |-> "queued", attempt |-> 0, calls |-> 0, ended |-> "no", delay |-> 0]

\* Math.pow(2, attempt)
RECURSIVE Pow2(_)
Pow2(n) == IF n = 0 THEN 1 ELSE 2 * Pow2(n - 1)

\* Math.random() * 250, in whole milliseconds: the least and the greatest draw.
Jitters == {0, jitterMs - 1}

\* Variant of calculateBackoff: the jitter is added before the cap is applied.
CalculateBackoffCapped(attempt, jitter) == Min(capMs, baseMs * Pow2(attempt) + jitter)

\* calculateBackoff(attempt) with the jitter drawn by Math.random()
CalculateBackoff(attempt, jitter) == Min(capMs, baseMs * Pow2(attempt)) + jitter

\* await sleep(calculateBackoff(attempt)) begins for batch b.
Sleep(a, b, jitter) ==
  [a EXCEPT !.batch[b].pc = "sleep",
            !.batch[b].delay = CalculateBackoff(a.batch[b].attempt, jitter)]

\* The head of the for loop for batch b with loop variable `attempt`: issue the
\* fetch, or leave the loop, push the missing ids and return.
EnterAttempt(a, cks, b, attempt, max) ==
  IF LoopContinues(attempt, max)
  THEN [a EXCEPT !.batch[b].pc = "fetch", !.batch[b].attempt = attempt,
                 !.batch[b].delay = 0, !.batch[b].calls = @ + 1]
  ELSE [a EXCEPT !.batch[b].pc = "done", !.batch[b].attempt = attempt,
                 !.batch[b].delay = 0,
                 !.batch[b].ended = IF @ = "no" THEN "exhausted" ELSE @,
                 !.results = PushMissing(@, cks[b])]

\* p-limit: start queued tasks, in order, while a slot is free.
RECURSIVE Admit(_, _, _, _)
Admit(a, cks, conc, max) ==
  IF Queued(a.batch) # {} /\ MayAdmit(Cardinality(Active(a.batch)), conc)
  THEN Admit(EnterAttempt(a, cks, FirstQueued(a.batch), 0, max), cks, conc, max)
  ELSE a

\* ---- main -----------------------------------------------------------------
\* The catch block of main's try: the report keeps what was set so far.
Throw(msg) ==
  /\ error' = msg
  /\ pc' = "fatal"

\* Variant of Filled: failed counts every entry of the result list.
FilledFailedCountsAll(rep, res) ==
  [rep EXCEPT !.results = res,
              !.successful = Cardinality({i \in DOMAIN res : res[i].ok}),
              !.failed = Len(res)]

\* deleteUsersAmplitude up to its first await, called with the report as main
\* has it (rep): the options, the batches, the limiter, and the tasks p-limit
\* starts at once.  A batch size of 0 never leaves the chunks loop; pLimit
\* throws on a concurrency that is no positive integer.  When every task has
\* returned already, Promise.all resolves and main fills the report.
Filled(rep, res) ==
  [rep EXCEPT !.results = res,
              !.successful = Cardinality({i \in DOMAIN res : res[i].ok}),
              !.failed = Cardinality({i \in DOMAIN res : ~res[i].ok})]

CallAmplitude(rep, bs, conc, max) ==
  /\ batchSize' = bs /\ concurrentBatches' = conc /\ maxAttempts' = max
  /\ IF bs = 0
     THEN /\ pc' = "hung"
          /\ report' = rep
          /\ UNCHANGED <<chunks, batch, results, error>>
     ELSE LET cks == Batches(allIds, bs, 0)
              a0 == [batch |-> [b \in 1..Len(cks) |-> QueuedTask], results |-> <<>>]
              a1 == Admit(a0, cks, conc, max)
          IN  /\ chunks' = cks
              /\ IF conc = 0
                 THEN /\ Throw("amplitude")
                      /\ report' = rep
                      /\ UNCHANGED <<batch, results>>
                 ELSE /\ batch' = a1.batch
                      /\ results' = a1.results
                      /\ IF AllDone(a1.batch)
                         THEN /\ report' = Filled(rep, a1.results)
                              /\ pc' = "finalize"
                         ELSE /\ report' = rep
                              /\ pc' = "amp"
                      /\ UNCHANGED error

\* Variant of OnDbResolved: the abort check after the purge is missing.
OnDbResolvedNoAbortCheck ==
  /\ dbOutcome' = "resolved"
  /\ UNCHANGED allIds
  /\ \E bs \in 0..MaxBatchSize, conc \in 0..MaxConcurrency, max \in 0..MaxAttemptsBound :
       CallAmplitude([report EXCEPT !.dbStatus = "success"], bs, conc, max)

\* After runGdprSqlWithTempTable resolved: the status, the abort check, the call
\* of deleteUsersAmplitude with the options read from the environment.
OnDbResolved ==
  /\ dbOutcome' = "resolved"
  /\ UNCHANGED allIds
  /\ IF aborted
     THEN /\ report' = [report EXCEPT !.dbStatus = "success"]
          /\ Throw("abortedAfterDb")
          /\ UNCHANGED ampVars
     ELSE \E bs \in 0..MaxBatchSize, conc \in 0..MaxConcurrency, max \in 0..MaxAttemptsBound :
            CallAmplitude([report EXCEPT !.dbStatus = "success"], bs, conc, max)

\* Variant of OnDbRejected: the catch records the failure and does not rethrow.
OnDbRejectedNoRethrow ==
  /\ dbOutcome' = "rejected"
  /\ UNCHANGED allIds
  /\ \E bs \in 0..MaxBatchSize, conc \in 0..MaxConcurrency, max \in 0..MaxAttemptsBound :
       CallAmplitude([report EXCEPT !.dbStatus = "failed", !.dbError = TRUE], bs, conc, max)

\* The catch around the await of runGdprSqlWithTempTable (rethrows).
OnDbRejected ==
  /\ dbOutcome' = "rejected"
  /\ report' = [report EXCEPT !.dbStatus = "failed", !.dbError = TRUE]
  /\ Throw("db")
  /\ UNCHANGED <<ampVars, allIds>>

\* main before its try block: requireEnv("DB_URL"), requireEnv("AMPLITUDE_KEY").
\* A missing variable throws out of main; otherwise the report is initialised
\* and the signal handlers are installed.
Configure(ok) ==
  /\ pc = "start"
  /\ IF ok
     THEN /\ pc' = "read"
          /\ UNCHANGED error
     ELSE /\ error' = "env"
          /\ pc' = "rejected"
  /\ UNCHANGED <<input, dryRun, scriptVars, aborted, allIds, report, dbOutcome, exitCode, files, dbVars, ampVars>>

\* main().catch(...): summary.txt with the message, process.exit(1).
OnUnexpected ==
  /\ pc = "rejected"
  /\ files' = {<<"summary.txt", error>>}
  /\ exitCode' = 1
  /\ pc' = "exited"
  /\ UNCHANGED <<input, dryRun, scriptVars, aborted, allIds, report, dbOutcome, error, dbVars, ampVars>>

\* process.on("SIGTERM" | "SIGINT"): the handler only sets the flag.
Signal ==
  /\ pc \in {"read", "db", "amp", "fatal", "finalize"}
  /\ ~aborted
  /\ aborted' = TRUE
  /\ UNCHANGED <<input, dryRun, scriptVars, pc, allIds, report, dbOutcome, error, exitCode, files, dbVars, ampVars>>

\* Variant of InvalidInput: the test for an empty array is missing.
InvalidInputNoEmptyTest(inp) == inp.kind # "array"

\* readFile or JSON.parse threw, !Array.isArray(parsedIds), or parsedIds.length === 0
InvalidInput(inp) == inp.kind # "array" \/ Len(inp.arr) = 0

\* [1/3]: read, parse, validate, deduplicate, the first abort check; then the
\* call of runGdprSqlWithTempTable up to its first await (pool.connect()).
ReadInput ==
  /\ pc = "read"
  /\ input' = Consumed
  /\ UNCHANGED <<dryRun, scriptVars, aborted, dbOutcome, exitCode, files, ampVars,
                 start, txns, checkedOut, openTxns, sqlLog, staging, committed>>
  /\ IF InvalidInput(input)
     THEN /\ Throw("input")
          /\ UNCHANGED <<allIds, report, chunkSize, dbpc, poolOpen>>
     ELSE /\ allIds' = Dedup(input.arr)
          /\ report' = [report EXCEPT !.totalIds = Len(input.arr),
                                      !.uniqueIds = Len(Dedup(input.arr))]
          /\ IF aborted
             THEN /\ Throw("abortedBeforeDb")
                  /\ UNCHANGED <<chunkSize, dbpc, poolOpen>>
             ELSE /\ chunkSize' \in (0..MaxChunkSize) \cup {Infinity}
                  /\ poolOpen' = TRUE
                  /\ dbpc' = "connect"
                  /\ pc' = "db"
                  /\ UNCHANGED error

\* The catch block: report.json, summary.txt, process.exit(1).
WriteFatal ==
  /\ pc = "fatal"
  /\ files' = {<<"report.json", report>>, <<"summary.txt", error>>}
  /\ exitCode' = 1
  /\ pc' = "exited"
  /\ UNCHANGED <<input, dryRun, scriptVars, aborted, allIds, report, dbOutcome, error, dbVars, ampVars>>

\* Variant of ExitStatus: the failed count is not looked at.
ExitStatusAlwaysZero(failed) == 0

\* Variant of ExitStatus: a failed identifier ends the run with the fatal status.
ExitStatusFailedIsFatal(failed) == IF failed > 0 THEN 1 ELSE 0

\* if (report.amplitude.failed > 0) process.exit(2); process.exit(0)
ExitStatus(failed) == IF failed > 0 THEN 2 ELSE 0

\* After the try: report.json, summary.txt, process.exit(2) or process.exit(0).
WriteSuccess ==
  /\ pc = "finalize"
  /\ files' = {<<"report.json", report>>, <<"summary.txt", "summary">>}
  /\ exitCode' = ExitStatus(report.failed)
  /\ pc' = "exited"
  /\ UNCHANGED <<input, dryRun, scriptVars, aborted, allIds, report, dbOutcome, error, dbVars, ampVars>>

\* ---- runGdprSqlWithTempTable ----------------------------------------------
\* ids.slice(start, start + chunkSize)
CurrentSlice == Slice(allIds, start, start + chunkSize)

Logged(op, ok) == Append(sqlLog, [op |-> op, ok |-> ok, txn |-> txns])

dbLocals == <<chunkSize, start>>
mainIdle == <<input, dryRun, scriptVars, aborted, pc, allIds, report, dbOutcome, error, exitCode, files>>

\* Variant of StepFailed: a failed step goes on to the COMMIT of its transaction.
StepFailedCommits == dbpc' = "commit"

\* A step of the inner try threw: the catch block awaits safeRollback.
StepFailed == dbpc' = "rollback"

\* await pool.connect(), outside the inner try: a failure goes to pool.end().
\* A purge that never advances (chunk size 0) is cut after MaxTxn transactions.
DbConnect(ok) ==
  /\ pc = "db" /\ dbpc = "connect"
  /\ chunkSize > 0 \/ txns < MaxTxn
  /\ IF ok
     THEN /\ checkedOut' = checkedOut + 1
          /\ txns' = txns + 1
          /\ dbpc' = "begin"
     ELSE /\ dbpc' = "endErr"
          /\ UNCHANGED <<checkedOut, txns>>
  /\ UNCHANGED <<mainIdle, ampVars, dbLocals, poolOpen, openTxns, sqlLog, staging, committed>>

\* await client.query("BEGIN")
DbBegin(ok) ==
  /\ pc = "db" /\ dbpc = "begin"
  /\ sqlLog' = Logged("BEGIN", ok)
  /\ IF ok
     THEN /\ openTxns' = openTxns + 1
          /\ dbpc' = "create"
     ELSE /\ StepFailed
          /\ UNCHANGED openTxns
  /\ UNCHANGED <<mainIdle, ampVars, dbLocals, txns, checkedOut, poolOpen, staging, committed>>

\* CREATE TEMP TABLE ids_to_delete (...) ON COMMIT DROP: fails when the session
\* still has the relation.
DbCreateTemp(ok) ==
  /\ pc = "db" /\ dbpc = "create"
  /\ LET done == ok /\ staging = NoTable
     IN  /\ sqlLog' = Logged("CREATE", done)
         /\ IF done
            THEN /\ staging' = <<>>
                 /\ dbpc' = "load"
            ELSE /\ StepFailed
                 /\ UNCHANGED staging
  /\ UNCHANGED <<mainIdle, ampVars, dbLocals, txns, checkedOut, poolOpen, openTxns, committed>>

\* INSERT INTO ids_to_delete SELECT * FROM UNNEST($1::text[]) with [slice];
\* user_id is the primary key, so a repeated id fails the statement.
DbLoad(ok) ==
  /\ pc = "db" /\ dbpc = "load"
  /\ LET rows == staging \o CurrentSlice
         done == ok /\ Cardinality(Range(rows)) = Len(rows)
     IN  /\ sqlLog' = Logged("INSERT", done)
         /\ IF done
            THEN /\ staging' = rows
                 /\ dbpc' = "readsql"
            ELSE /\ StepFailed
                 /\ UNCHANGED staging
  /\ UNCHANGED <<mainIdle, ampVars, dbLocals, txns, checkedOut, poolOpen, openTxns, committed>>

\* const sql = await readFile(sqlPath, "utf8")
DbReadSql(ok) ==
  /\ pc = "db" /\ dbpc = "readsql"
  /\ IF ok THEN dbpc' = "exec" ELSE StepFailed
  /\ UNCHANGED <<mainIdle, ampVars, dbLocals, txns, checkedOut, poolOpen, openTxns, sqlLog, staging, committed>>

\* await client.query(sql): the deletion procedure, over the staging relation.
DbExec(ok) ==
  /\ pc = "db" /\ dbpc = "exec"
  /\ sqlLog' = Append(sqlLog, [op |-> "EXEC", ok |-> ok, txn |-> txns, rows |-> staging])
  /\ IF ok THEN dbpc' = "commit" ELSE StepFailed
  /\ UNCHANGED <<mainIdle, ampVars, dbLocals, txns, checkedOut, poolOpen, openTxns, staging, committed>>

\* Variant of OnCommitDrop: the relation outlives the transaction (a temporary
\* table without the ON COMMIT DROP clause).
OnCommitPreserve(rows) == rows

\* ON COMMIT DROP: the staging relation is dropped when its transaction commits.
OnCommitDrop(rows) == NoTable

\* Variant of Release: the finally block is missing.
ReleaseNone(held) == held

\* client.release() in the finally block of the chunk's try.
Release(held) == held - 1

\* Variant of AfterChunk: the procedure is run once more after the COMMIT.
AfterChunkRunsAgain(next) == "exec"

\* The for statement's update and test: another chunk, or the outer finally.
AfterChunk(next) == IF next < Len(allIds) THEN "connect" ELSE "endOk"

\* await client.query("COMMIT"); then the log line, client.release() and the
\* next loop iteration up to its await.  The commit makes the procedure's
\* deletions durable and drops the staging relation.
DbCommit(ok) ==
  /\ pc = "db" /\ dbpc = "commit"
  /\ sqlLog' = Logged("COMMIT", ok)
  /\ IF ok
     THEN /\ committed' = Append(committed, staging)
          /\ staging' = OnCommitDrop(staging)
          /\ openTxns' = openTxns - 1
          /\ checkedOut' = Release(checkedOut)
          /\ start' = start + chunkSize
          /\ dbpc' = AfterChunk(start + chunkSize)
     ELSE /\ StepFailed
          /\ UNCHANGED <<committed, staging, openTxns, checkedOut, start>>
  /\ UNCHANGED <<mainIdle, ampVars, chunkSize, txns, poolOpen>>

\* Variant of AfterRollback: the catch block does not rethrow, the loop goes on.
AfterRollbackContinue == AfterChunk(start)

\* throw err after safeRollback: out of the loop, to the outer finally.
AfterRollback == "endErr"

\* safeRollback (its own failure is ignored), throw err, client.release().
SafeRollback(ok) ==
  /\ pc = "db" /\ dbpc = "rollback"
  /\ sqlLog' = Logged("ROLLBACK", ok)
  /\ IF ok
     THEN /\ openTxns' = 0
          /\ staging' = NoTable
     ELSE UNCHANGED <<openTxns, staging>>
  /\ checkedOut' = Release(checkedOut)
  /\ dbpc' = AfterRollback
  /\ UNCHANGED <<mainIdle, ampVars, dbLocals, txns, poolOpen, committed>>

\* await pool.end() in the outer finally: the sessions close, so an open
\* transaction is aborted and the staging relation is gone.  Then main resumes.
DbPoolEnd ==
  /\ pc = "db" /\ dbpc \in {"endOk", "endErr"}
  /\ poolOpen' = FALSE
  /\ openTxns' = 0
  /\ staging' = NoTable
  /\ chunkSize' = 0 /\ start' = 0 /\ dbpc' = "idle"
  /\ IF dbpc = "endOk" THEN OnDbResolved ELSE OnDbRejected
  /\ UNCHANGED <<input, dryRun, scriptVars, aborted, exitCode, files, txns, checkedOut, sqlLog, committed>>

\* ---- deleteUsersAmplitude: the events of a running batch ---------------------
\* attempt === maxAttempts - 1 in the catch block
IsLastAttempt(attempt, max) == attempt = max - 1

\* The catch block of an attempt, then the loop's next iteration.
Caught(a, b, jitter) ==
  IF IsLastAttempt(a.batch[b].attempt, maxAttempts)
  THEN EnterAttempt([a EXCEPT !.batch[b].ended = "network",
                               !.results = PushAll(@, chunks[b], FALSE, "network")],
                    chunks, b, a.batch[b].attempt + 1, maxAttempts)
  ELSE Sleep(a, b, jitter)

\* The draws of Math.random() that matter to the catch block of batch b.
CaughtJitters(b) ==
  IF IsLastAttempt(batch[b].attempt, maxAttempts) THEN {0} ELSE Jitters

\* What follows an event of a batch: p-limit starts the next queued task when
\* a slot was freed, and when the last task returns Promise.all resolves and
\* main fills the report.
Settle(a) ==
  LET a2 == Admit(a, chunks, concurrentBatches, maxAttempts)
  IN  /\ batch' = a2.batch
      /\ results' = a2.results
      /\ IF AllDone(a2.batch)
         THEN /\ report' = Filled(report, a2.results)
              /\ pc' = "finalize"
         ELSE UNCHANGED <<report, pc>>
      /\ UNCHANGED <<input, dryRun, scriptVars, aborted, allIds, dbOutcome, error, exitCode, files,
                     dbVars, batchSize, concurrentBatches, maxAttempts, chunks>>

Current == [batch |-> batch, results |-> results]

\* The await of fetch ends: a response with a status, or a rejection.
Respond(b, r) ==
  /\ pc = "amp" /\ b \in DOMAIN batch /\ batch[b].pc = "fetch"
  /\ LET a == Current
     IN  CASE r = "ok" ->
                Settle([a EXCEPT !.batch[b].pc = "done", !.batch[b].ended = "ok",
                                 !.results = PushAll(@, chunks[b], TRUE, "none")])
           [] r = "client" ->
                Settle([a EXCEPT !.batch[b].pc = "body"])
           [] r = "server" ->
                \E jitter \in Jitters : Settle(Sleep(a, b, jitter))
           [] r = "neterr" ->
                \E jitter \in CaughtJitters(b) : Settle(Caught(a, b, jitter))

\* The await of res.text() on a status below 500 ends.
ReadBody(b, ok) ==
  /\ pc = "amp" /\ b \in DOMAIN batch /\ batch[b].pc = "body"
  /\ IF ok
     THEN Settle([Current EXCEPT !.batch[b].pc = "done", !.batch[b].ended = "http",
                                 !.results = PushAll(@, chunks[b], FALSE, "http")])
     ELSE \E jitter \in CaughtJitters(b) : Settle(Caught(Current, b, jitter))

\* The await of sleep(calculateBackoff(attempt)) ends: attempt++ and the loop test.
Wake(b) ==
  /\ pc = "amp" /\ b \in DOMAIN batch /\ batch[b].pc = "sleep"
  /\ Settle(EnterAttempt(Current, chunks, b, batch[b].attempt + 1, maxAttempts))

Responses == {"ok", "client", "server", "neterr"}

Next ==
  \/ \E ok \in BOOLEAN : Configure(ok)
  \/ OnUnexpected
  \/ ReadInput
  \/ Signal
  \/ \E ok \in BOOLEAN : DbConnect(ok)
  \/ \E ok \in BOOLEAN : DbBegin(ok)
  \/ \E ok \in BOOLEAN : DbCreateTemp(ok)
  \/ \E ok \in BOOLEAN : DbLoad(ok)
  \/ \E ok \in BOOLEAN : DbReadSql(ok)
  \/ \E ok \in BOOLEAN : DbExec(ok)
  \/ \E ok \in BOOLEAN : DbCommit(ok)
  \/ \E ok \in BOOLEAN : SafeRollback(ok)
  \/ DbPoolEnd
  \/ \E b \in DOMAIN batch, r \in Responses : Respond(b, r)
  \/ \E b \in DOMAIN batch, ok \in BOOLEAN : ReadBody(b, ok)
  \/ \E b \in DOMAIN batch : Wake(b)
  \/ WriteFatal
  \/ WriteSuccess

Spec == Init /\ [][Next]_vars

\* ---- the run up to the return of runGdprSqlWithTempTable ------------------------

\* The steps of main and of runGdprSqlWithTempTable; once the purge has
\* returned and deleteUsersAmplitude has issued its first requests, no
\* response arrives.
PurgeNext ==
  \/ \E ok \in BOOLEAN : Configure(ok)
  \/ OnUnexpected
  \/ ReadInput
  \/ Signal
  \/ \E ok \in BOOLEAN : DbConnect(ok)
  \/ \E ok \in BOOLEAN : DbBegin(ok)
  \/ \E ok \in BOOLEAN : DbCreateTemp(ok)
  \/ \E ok \in BOOLEAN : DbLoad(ok)
  \/ \E ok \in BOOLEAN : DbReadSql(ok)
  \/ \E ok \in BOOLEAN : DbExec(ok)
  \/ \E ok \in BOOLEAN : DbCommit(ok)
  \/ \E ok \in BOOLEAN : SafeRollback(ok)
  \/ DbPoolEnd
  \/ WriteFatal

PurgeSpec == Init /\ [][PurgeNext]_vars

\* ---- the retry loop of one batch, at attempt limits past the cap --------------
\* The run at the first await of deleteUsersAmplitude: a file with one
\* identifier, purged in one chunk, one batch whose first fetch is in flight,
\* and an attempt limit large enough for the exponential term to pass capMs.
PurgedOne ==
  <<[op |-> "BEGIN", ok |-> TRUE, txn |-> 1], [op |-> "CREATE", ok |-> TRUE, txn |-> 1],
    [op |-> "INSERT", ok |-> TRUE, txn |-> 1],
    [op |-> "EXEC", ok |-> TRUE, txn |-> 1, rows |-> <<1>>],
    [op |-> "COMMIT", ok |-> TRUE, txn |-> 1]>>

BackoffInit ==
  /\ ScriptIdle
  /\ input = Consumed
  /\ dryRun \in BOOLEAN
  /\ aborted = FALSE
  /\ pc = "amp"
  /\ allIds = <<1>>
  /\ report = [InitialReport EXCEPT !.totalIds = 1, !.uniqueIds = 1]
  /\ dbOutcome = "resolved"
  /\ error = "none"
  /\ exitCode = -1
  /\ files = {}
  /\ chunkSize = 0 /\ start = 0 /\ dbpc = "idle" /\ txns = 1
  /\ checkedOut = 0 /\ poolOpen = FALSE
  /\ openTxns = 0 /\ sqlLog = PurgedOne /\ staging = NoTable /\ committed = << <<1>> >>
  /\ batchSize = 1 /\ concurrentBatches = 1
  /\ maxAttempts \in 1..MaxBackoffAttempts
  /\ chunks = Batches(allIds, batchSize, 0)
  /\ batch = Admit([batch |-> <<QueuedTask>>, results |-> <<>>],
                   chunks, concurrentBatches, maxAttempts).batch
  /\ results = <<>>

BackoffNext ==
  \/ Signal
  \/ \E b \in DOMAIN batch, r \in Responses : Respond(b, r)
  \/ \E b \in DOMAIN batch, ok \in BOOLEAN : ReadBody(b, ok)
  \/ \E b \in DOMAIN batch : Wake(b)
  \/ WriteSuccess

BackoffSpec == BackoffInit /\ [][BackoffNext]_vars

\* ---- properties ---------------------------------------------------------------
NoHttp == \A b \in DOMAIN batch : batch[b].calls = 0

\* deleteUsersAmplitude has returned its result list to main.
AmpReturned == batch # <<>> /\ AllDone(batch) /\ pc \in {"finalize", "exited"}

EntriesOf(id) == {i \in DOMAIN results : results[i].id = id}

\* A step of some chunk's transaction failed (the catch block issued ROLLBACK).
ChunkFailed == \E i \in DOMAIN sqlLog : sqlLog[i].op = "ROLLBACK"

\* C1: when deleteUsersAmplitude has returned (batchSize, concurrentBatches,
\* maxAttempts >= 1, identifiers without repetition), the result list holds
\* exactly one entry per input identifier and no other entry.
C1_OneEntryPerId ==
  (AmpReturned /\ batchSize >= 1 /\ concurrentBatches >= 1 /\ maxAttempts >= 1)
    => /\ \A id \in Range(allIds) : Cardinality(EntriesOf(id)) = 1
       /\ \A i \in DOMAIN results : results[i].id \in Range(allIds)
       /\ Len(results) = Len(allIds)

\* A run where two batches ran side by side, one succeeded, and the other used
\* its last attempt on a transport error (pushed in the catch block, then met
\* again by the loop after the attempts).
C1_Witness ==
  /\ AmpReturned /\ maxAttempts >= 2 /\ concurrentBatches >= 2 /\ Len(chunks) >= 2
  /\ \E i, j \in DOMAIN results : results[i].error = "network" /\ results[j].ok

\* C2: deleteUsersAmplitude is called, and a request sent, only after
\* runGdprSqlWithTempTable resolved with every chunk committed; once a chunk
\* has failed no request is ever sent, database.status is "failed" in the
\* report, and the process exits with status 1.
C2_ExternalOnlyAfterRelational ==
  /\ (pc \in {"amp", "finalize", "hung"} \/ chunks # <<>> \/ ~NoHttp)
       => (dbOutcome = "resolved" /\ Flatten(committed) = allIds)
  /\ ChunkFailed
       => /\ NoHttp /\ chunks = <<>>
          /\ pc \in {"db", "fatal", "exited"}
          /\ pc \in {"fatal", "exited"} => report.dbStatus = "failed"
          /\ pc = "exited"
               => (exitCode = 1 /\ \E f \in files : f[1] = "report.json" /\ f[2].dbStatus = "failed")

\* A run that committed its first chunk, failed in a later one and has exited.
C2_Witness ==
  /\ pc = "exited" /\ ChunkFailed /\ Len(committed) >= 1
  /\ \E i \in DOMAIN sqlLog : sqlLog[i].txn = 2 /\ ~sqlLog[i].ok

\* C3: with DRY_RUN true no relational transaction commits.
C3_DryRunNeverCommits ==
  dryRun => /\ committed = <<>>
            /\ \A i \in DOMAIN sqlLog : sqlLog[i].op = "COMMIT" => ~sqlLog[i].ok

\* C4: with DRY_RUN true no HTTP request is sent, and the external outcome
\* marks every identifier ok.
C4_DryRunNoHttp ==
  dryRun => /\ NoHttp
            /\ AmpReturned => \A id \in Range(allIds) :
                                \E i \in EntriesOf(id) : results[i].ok

C6_PermanentEndsBatch ==
  [][\A b \in DOMAIN batch :
       batch[b].pc = "body"
         => \/ batch'[b].pc = "body"
            \/ /\ batch'[b].pc = "done"
               /\ batch'[b].calls = batch[b].calls
               /\ \A k \in DOMAIN chunks[b] :
                    \E i \in DOMAIN results' :
                      results'[i].id = chunks[b][k] /\ ~results'[i].ok]_vars

\* C7: no batch issues more than maxAttempts fetches, and a batch that returned
\* with only transient failures (5xx or transport errors) issued exactly
\* maxAttempts and has its identifiers recorded ok:false.
C7_AttemptsBounded ==
  \A b \in DOMAIN batch :
    /\ batch[b].calls <= maxAttempts
    /\ (batch[b].pc = "done" /\ batch[b].ended \in {"network", "exhausted"})
         => /\ batch[b].calls = maxAttempts
            /\ \A k \in DOMAIN chunks[b] :
                 \E i \in EntriesOf(chunks[b][k]) : ~results[i].ok

\* A batch that failed a first attempt, retried, and gave up after the second
\* 5xx.
C7_Witness ==
  \E b \in DOMAIN batch :
    /\ maxAttempts >= 2 /\ batch[b].pc = "done"
    /\ batch[b].ended = "exhausted" /\ batch[b].calls = maxAttempts

\* C8: the batches started and not finished (fetch in flight, body being read,
\* or in backoff) never number more than concurrentBatches, and a batch is
\* left queued only while every slot is taken.
C8_BoundedConcurrency ==
  /\ Cardinality(Active(batch)) <= concurrentBatches
  /\ Queued(batch) # {} => Cardinality(Active(batch)) = concurrentBatches

\* A batch waits in the queue while the only slot is held by a batch in backoff.
C8_Witness ==
  /\ pc = "amp" /\ Queued(batch) # {}
  /\ \E b \in Active(batch) : batch[b].pc = "sleep"

\* The outcome of a batch by the way its own task returned.
OutcomeOf(ended) ==
  CASE ended = "ok" -> [ok |-> TRUE, error |-> "none"]
    [] ended = "http" -> [ok |-> FALSE, error |-> "http"]
    [] ended = "network" -> [ok |-> FALSE, error |-> "network"]
    [] ended = "exhausted" -> [ok |-> FALSE, error |-> "exhausted"]

\* C9: what is recorded for the identifiers of a batch is decided by that
\* batch's own task alone (nothing before it returns, then one entry per
\* identifier with the outcome of its own last attempt, whatever the other
\* batches met), and when Promise.all resolves every batch has been attempted
\* and recorded.
C9_BatchIsolation ==
  /\ \A b \in DOMAIN batch : \A k \in DOMAIN chunks[b] :
       LET mine == EntriesOf(chunks[b][k])
       IN  IF batch[b].pc = "done"
           THEN /\ Cardinality(mine) = 1
                /\ \A i \in mine :
                     [ok |-> results[i].ok, error |-> results[i].error] = OutcomeOf(batch[b].ended)
           ELSE mine = {}
  /\ AmpReturned
       => \A b \in DOMAIN batch : maxAttempts >= 1 => batch[b].calls >= 1

\* A batch failed for good and was recorded before its sibling succeeded.
C9_Witness ==
  \E i, j \in DOMAIN results :
    /\ i < j /\ ~results[i].ok /\ results[j].ok
    /\ \E b, c \in DOMAIN batch :
         /\ b # c /\ batch[b].pc = "done" /\ batch[c].pc = "done"
         /\ results[i].id \in Range(chunks[b]) /\ results[j].id \in Range(chunks[c])

\* C10: a failed step of a chunk's transaction is followed by one ROLLBACK of
\* that transaction and by nothing else; the chunk is not retried, no later chunk
\* begins, the chunk is not committed, and runGdprSqlWithTempTable rejects.
C10_ChunkFailureAborts ==
  /\ \A i \in DOMAIN sqlLog :
       (sqlLog[i].op # "ROLLBACK" /\ ~sqlLog[i].ok)
         => /\ i >= Len(sqlLog) - 1
            /\ i = Len(sqlLog) => dbpc = "rollback"
            /\ i = Len(sqlLog) - 1
                 => sqlLog[i + 1].op = "ROLLBACK" /\ sqlLog[i + 1].txn = sqlLog[i].txn
  /\ dbpc = "rollback" => pc = "db"
  /\ \A i \in DOMAIN sqlLog :
       sqlLog[i].op = "ROLLBACK"
         => /\ i = Len(sqlLog)
            /\ sqlLog[i].txn = txns
            /\ Len(committed) = txns - 1
            /\ dbpc \in {"endErr", "idle"}
            /\ dbOutcome # "resolved"
            /\ dbpc = "idle" => (dbOutcome = "rejected" /\ openTxns = 0)

\* The COMMIT of the second chunk failed, and the purge has rejected.
C10_Witness ==
  /\ dbOutcome = "rejected" /\ Len(committed) = 1
  /\ \E i \in DOMAIN sqlLog :
       sqlLog[i].op = "COMMIT" /\ ~sqlLog[i].ok /\ sqlLog[i].txn = 2

\* The values DB_CHUNK_SIZE may have in a run.
ChunkSizes == (0..MaxChunkSize) \cup {Infinity}

\* The first n chunks of the identifier list under chunk size C.
FirstChunks(C, n) ==
  IF C = 0 THEN [i \in 1..n |-> <<>>] ELSE SubSeq(Batches(allIds, C, 0), 1, n)

OkCommits == {i \in DOMAIN sqlLog : sqlLog[i].op = "COMMIT" /\ sqlLog[i].ok}

\* C11: the committed chunks are, at every moment and at the end of the run, the
\* first chunks of the chunk sequence, each with all of its identifiers; every
\* acknowledged COMMIT is still among them (nothing undoes a committed chunk),
\* and a chunk that failed is not among them.
C11_CommittedPrefix ==
  /\ \E C \in ChunkSizes :
       /\ pc = "db" => C = chunkSize
       /\ C > 0 => Len(committed) <= Len(Batches(allIds, C, 0))
       /\ committed = FirstChunks(C, Len(committed))
  /\ Len(committed) = Cardinality(OkCommits)
  /\ \A i \in OkCommits : sqlLog[i].txn \in DOMAIN committed
  /\ ChunkFailed => Len(committed) = txns - 1
  /\ (pc = "exited" /\ dbOutcome = "resolved") => Flatten(committed) = allIds

\* The run has exited after the procedure failed in the second chunk: the first
\* chunk is committed, the second is not.
C11_Witness ==
  /\ pc = "exited" /\ Len(committed) = 1 /\ Flatten(committed) # allIds
  /\ \E i \in DOMAIN sqlLog : sqlLog[i].op = "EXEC" /\ ~sqlLog[i].ok /\ sqlLog[i].txn = 2

\* C12: at most one transaction is open and at most one client is checked out
\* at any time; a transaction begins only when every earlier one has ended, the
\* BEGIN of chunk i+1 comes after the acknowledged COMMIT of chunk i, and the
\* statements of different chunks are never interleaved.
C12_OneTransactionAtATime ==
  /\ openTxns <= 1 /\ checkedOut <= 1
  /\ dbpc \in {"create", "load", "readsql", "exec", "commit"}
       => (openTxns = 1 /\ checkedOut = 1)
  /\ \A i, j \in DOMAIN sqlLog : i < j => sqlLog[i].txn <= sqlLog[j].txn
  /\ \A j \in DOMAIN sqlLog :
       (sqlLog[j].op = "BEGIN" /\ sqlLog[j].txn > 1)
         => /\ sqlLog[j - 1].op = "COMMIT" /\ sqlLog[j - 1].ok
            /\ sqlLog[j - 1].txn = sqlLog[j].txn - 1

\* The transaction of the second chunk is open, after the first one committed.
C12_Witness ==
  /\ pc = "db" /\ dbpc = "exec" /\ txns = 2 /\ openTxns = 1 /\ Len(committed) = 1
  /\ staging # <<>>

\* The slices staged so far: those of the committed chunks and the one now in
\* the staging relation.
StagedSlices ==
  committed \o (IF staging = NoTable \/ staging = <<>> THEN <<>> ELSE <<staging>>)

\* C13: for a chunk size C >= 1 (an integer, or the default Infinity) the
\* slices staged hold between 1 and C identifiers each, are pairwise disjoint
\* and follow the order of the identifier list; when the loop ends they are
\* together exactly the identifier list; with the default chunk size there is
\* one slice, the whole list.
C13_ChunksPartition ==
  (pc = "db" /\ chunkSize >= 1)
    => LET S == StagedSlices
       IN  /\ \A i \in DOMAIN S : Len(S[i]) >= 1 /\ Len(S[i]) <= chunkSize
           /\ \A i, j \in DOMAIN S : i # j => Range(S[i]) \cap Range(S[j]) = {}
           /\ Flatten(S) = SubSeq(allIds, 1, Len(Flatten(S)))
           /\ \A i \in DOMAIN S : i < Len(S) => Len(S[i]) = chunkSize
           /\ dbpc = "endOk" => Flatten(S) = allIds
           /\ chunkSize = Infinity => \A i \in DOMAIN S : i = 1 /\ S[i] = allIds

\* The loop has ended after two chunks of one identifier each.
C13_Witness ==
  /\ pc = "db" /\ dbpc = "endOk" /\ chunkSize = 1
  /\ Len(committed) >= 2 /\ Flatten(committed) = allIds

\* C14: once runGdprSqlWithTempTable has resolved and the abort check after it
\* has passed (batch size and concurrency positive), whatever the fetches and
\* body reads of the external stage answer, and even if a signal arrives
\* meanwhile, main never reaches its catch block: no error is caught and the
\* exit status is 0 or 2.
C14_ExternalNeverFatal ==
  (dbOutcome = "resolved" /\ error # "abortedAfterDb"
     /\ batchSize >= 1 /\ concurrentBatches >= 1)
    => /\ pc \in {"amp", "finalize", "exited"}
       /\ error = "none"
       /\ pc = "exited" => (exitCode \in {0, 2} /\ AmpReturned)

\* Every batch failed, one on a transport error at its last attempt and one on
\* a 4xx, a signal arrived during the external stage, and the run exited 2.
C14_Witness ==
  /\ pc = "exited" /\ exitCode = 2 /\ aborted
  /\ \A i \in DOMAIN results : ~results[i].ok
  /\ \E i, j \in DOMAIN results : results[i].error = "network" /\ results[j].error = "http"

\* C15: the delay a batch waits between two attempts (the sleep is followed by
\* another attempt) is at most capMs, jitter included.
C15_DelayWithinCap ==
  \A b \in DOMAIN batch :
    (batch[b].pc = "sleep" /\ LoopContinues(batch[b].attempt + 1, maxAttempts))
      => batch[b].delay <= capMs

\* C16: the delay a batch has just waited is at most the delay it waits after
\* the attempt that follows, whatever jitter is drawn for that one (both sleeps
\* lie between two attempts).
C16_DelaysNonDecreasing ==
  [][\A b \in DOMAIN batch :
       (batch[b].pc = "sleep" /\ batch'[b].pc = "fetch"
          /\ LoopContinues(batch'[b].attempt + 1, maxAttempts))
         => \A jitter \in Jitters :
              batch[b].delay <= CalculateBackoff(batch'[b].attempt, jitter)]_vars

\* C17: when the input file cannot be read or parsed, holds no array, or holds
\* an empty array, the step that consumes it goes to the catch block with the
\* input error; from then on no transaction has been opened and no request
\* sent, and the process exits with status 1 after report.json and summary.txt
\* were written.
C17_InvalidInputIsFatal ==
  [][/\ (pc = "read" /\ pc' # "read" /\ (input.kind # "array" \/ input.arr = <<>>))
          => (error' = "input" /\ pc' = "fatal")
     /\ error' = "input"
          => /\ txns' = 0 /\ sqlLog' = <<>> /\ committed' = <<>> /\ ~poolOpen'
             /\ chunks' = <<>> /\ batch' = <<>> /\ results' = <<>>
             /\ pc' \in {"fatal", "exited"}
             /\ pc' = "exited"
                  => /\ exitCode' = 1
                     /\ {f[1] : f \in files'} = {"report.json", "summary.txt"}]_vars

\* A run on an invalid input file has exited.
C17_Witness ==
  /\ pc = "exited" /\ error = "input" /\ exitCode = 1 /\ allIds = <<>>
  /\ \E f \in files : f[1] = "summary.txt" /\ f[2] = "input"

\* C18: the step that consumes a non-empty input array yields an identifier
\* list without repetition whose elements are exactly the values of the array
\* (as strings: String(v)), with uniqueIds its length and totalIds the length
\* of the array, so uniqueIds <= totalIds; that list does not change afterwards,
\* and what is staged in the relational store and batched for the external
\* service is taken from it.
C18_Deduplicated ==
  [][/\ (pc = "read" /\ pc' # "read" /\ input.kind = "array" /\ input.arr # <<>>)
          => /\ Cardinality(Range(allIds')) = Len(allIds')
             /\ Range(allIds') = {StringOf(input.arr[i]) : i \in DOMAIN input.arr}
             /\ report'.uniqueIds = Len(allIds')
             /\ report'.totalIds = Len(input.arr)
             /\ report'.uniqueIds <= report'.totalIds
     /\ pc # "read" => allIds' = allIds
     /\ (staging' # NoTable /\ staging' # <<>>) => staging' = Slice(allIds', start', start' + chunkSize')
     /\ dbOutcome' = "resolved" => Flatten(committed') = allIds'
     /\ chunks' # <<>> => Flatten(chunks') = allIds']_vars

\* An array of three elements with one repetition was purged and batched:
\* uniqueIds 2, totalIds 3.
C18_Witness ==
  /\ report.totalIds = 3 /\ report.uniqueIds = 2 /\ allIds = <<1, 2>>
  /\ Flatten(committed) = allIds /\ Flatten(chunks) = allIds /\ pc = "amp"

\* C19: once the flag is set, no batch that has not started yet (it does not
\* exist yet, or it waits in the limiter's queue) issues a fetch.
C19_NoNewBatchAfterSignal ==
  [][aborted
       => \A b \in DOMAIN batch' :
            batch'[b].calls > 0 => (b \in DOMAIN batch /\ batch[b].pc # "queued")]_vars

\* C20: a run that ended because the flag was seen at one of the two abort
\* checks exits with a status other than the fatal one (1), and its report is
\* neither the report of an input failure (nothing counted) nor that of a
\* relational failure (database.status "failed").
C20_AbortDistinctFromFatal ==
  (pc = "exited" /\ error \in {"abortedBeforeDb", "abortedAfterDb"})
    => /\ exitCode # 1
       /\ \A f \in files :
            f[1] = "report.json" => (f[2] # InitialReport /\ f[2].dbStatus # "failed")

\* C21: when the process has exited, whatever the outcome, report.json and
\* summary.txt have both been written.
C21_ReportsWritten ==
  pc = "exited" => {f[1] : f \in files} = {"report.json", "summary.txt"}

\* C22: in every report.json written, database.status is "failed" exactly when
\* runGdprSqlWithTempTable rejected, and "success" only when it resolved with
\* every chunk committed.
C22_DatabaseStatus ==
  \A f \in files :
    f[1] = "report.json"
      => /\ f[2].dbStatus = "failed" <=> dbOutcome = "rejected"
         /\ f[2].dbStatus = "success"
              => (dbOutcome = "resolved" /\ Flatten(committed) = allIds /\ allIds # <<>>)

C24_ExhaustedDetail ==
  [][\A b \in DOMAIN batch :
       (batch[b].pc \in {"fetch", "sleep"} /\ batch'[b].pc = "done" /\ batch'[b].ended # "ok")
         => \A k \in DOMAIN chunks[b] :
              \E i \in DOMAIN results' :
                /\ results'[i].id = chunks[b][k]
                /\ ~results'[i].ok /\ results'[i].error = "exhausted"]_vars

\* The entries of the result list res for the identifiers of batch b.
EntriesOfBatch(res, b) == {i \in DOMAIN res : res[i].id \in Range(chunks[b])}

\* C25: a batch whose fetch was answered 2xx has returned at once, with exactly
\* one entry per identifier of the batch, each ok:true; from then on the batch
\* issues no fetch and its entries do not change.
C25_SuccessEndsBatch ==
  [][\A b \in DOMAIN batch' :
       /\ batch'[b].ended = "ok"
            => /\ batch'[b].pc = "done"
               /\ \A k \in DOMAIN chunks'[b] :
                    Cardinality({i \in DOMAIN results' : results'[i].id = chunks'[b][k]}) = 1
               /\ \A i \in DOMAIN results' :
                    results'[i].id \in Range(chunks'[b])
                      => (results'[i].ok /\ results'[i].error = "none")
       /\ (b \in DOMAIN batch /\ batch[b].ended = "ok")
            => /\ batch'[b] = batch[b]
               /\ EntriesOfBatch(results', b) = EntriesOfBatch(results, b)
               /\ \A i \in EntriesOfBatch(results, b) : results'[i] = results[i]
       /\ (b \in DOMAIN batch /\ batch[b].pc = "fetch" /\ batch'[b].pc = "done"
             /\ \E i \in DOMAIN results' : results'[i].id \in Range(chunks[b]) /\ results'[i].ok)
            => (batch'[b].ended = "ok" /\ batch'[b].calls = batch[b].calls)]_vars

\* A batch succeeded at its second attempt and stays as it is while another
\* batch is still retrying.
C25_Witness ==
  \E b, c \in DOMAIN batch :
    /\ batch[b].pc = "done" /\ batch[b].ended = "ok" /\ batch[b].calls = 2
    /\ b # c /\ batch[c].pc = "fetch" /\ batch[c].calls = 2

\* ---- the run under the assumption that every await completes --------------------
\* A fetch in flight is answered or rejects, a body read ends, a sleep ends:
\* the timers and the sockets of the event loop.
AwaitEnds ==
  \E b \in DOMAIN batch :
    \/ \E r \in Responses : Respond(b, r)
    \/ \E ok \in BOOLEAN : ReadBody(b, ok)
    \/ Wake(b)

\* While some await is pending, one of them eventually completes.
AwaitsComplete == WF_vars(AwaitEnds)

\* The run at the first await of deleteUsersAmplitude, after a purge of the
\* identifiers 1..n in one chunk.
LiveInit ==
  \E n \in 1..MaxIds :
    /\ ScriptIdle
    /\ input = Consumed
    /\ dryRun = FALSE
    /\ aborted = FALSE
    /\ pc = "amp"
    /\ allIds = [i \in 1..n |-> i]
    /\ report = [InitialReport EXCEPT !.totalIds = n, !.uniqueIds = n]
    /\ dbOutcome = "resolved"
    /\ error = "none"
    /\ exitCode = -1
    /\ files = {}
    /\ chunkSize = 0 /\ start = 0 /\ dbpc = "idle" /\ txns = 1
    /\ checkedOut = 0 /\ poolOpen = FALSE
    /\ openTxns = 0 /\ staging = NoTable /\ committed = <<allIds>>
    /\ sqlLog = [PurgedOne EXCEPT ![4].rows = allIds]
    /\ batchSize \in 1..MaxBatchSize
    /\ concurrentBatches \in 1..MaxConcurrency
    /\ maxAttempts \in 1..MaxLiveAttempts
    /\ chunks = Batches(allIds, batchSize, 0)
    /\ LET a == Admit([batch |-> [b \in DOMAIN chunks |-> QueuedTask], results |-> <<>>],
                      chunks, concurrentBatches, maxAttempts)
       IN  batch = a.batch /\ results = a.results

LiveNext ==
  \/ Signal
  \/ \E b \in DOMAIN batch, r \in Responses : Respond(b, r)
  \/ \E b \in DOMAIN batch, ok \in BOOLEAN : ReadBody(b, ok)
  \/ \E b \in DOMAIN batch : Wake(b)
  \/ WriteSuccess

LiveSpec == LiveInit /\ [][LiveNext]_vars /\ AwaitsComplete

C27_StagingIsolation ==
  /\ dbpc = "create" => staging = NoTable
  /\ dbpc = "exec" => staging = CurrentSlice
  /\ pc = "db"
       => \A i \in DOMAIN sqlLog :
            sqlLog[i].op = "EXEC"
              => sqlLog[i].rows = Slice(allIds, (sqlLog[i].txn - 1) * chunkSize,
                                        sqlLog[i].txn * chunkSize)

\* The procedure ran for a second chunk and saw that chunk's identifiers only.
C27_Witness ==
  \E i, j \in DOMAIN sqlLog :
    /\ i < j /\ sqlLog[i].op = "EXEC" /\ sqlLog[j].op = "EXEC"
    /\ sqlLog[i].rows # <<>> /\ sqlLog[j].rows # <<>>
    /\ Range(sqlLog[i].rows) \cap Range(sqlLog[j].rows) = {}

\* The statements of a chunk's transaction, in the order of the source.
StatementOrder == <<"BEGIN", "CREATE", "INSERT", "EXEC", "COMMIT">>

\* Statement e may directly follow statement p of the same transaction.
MayFollow(p, e) ==
  /\ p.op # "ROLLBACK"
  /\ \/ e.op = "ROLLBACK"
     \/ /\ p.ok
        /\ \E k \in 1..(Len(StatementOrder) - 1) :
             StatementOrder[k] = p.op /\ StatementOrder[k + 1] = e.op

\* C28: the statements of every chunk are BEGIN, CREATE, INSERT, the procedure,
\* COMMIT, in that order, each issued only after the one before succeeded (a
\* ROLLBACK, when one is issued, is the last of its transaction); the
\* procedure runs only inside an open transaction, and when the purge has
\* resolved it ran exactly once in each chunk's transaction, over that chunk's
\* identifiers.
C28_StatementOrder ==
  /\ \A i \in DOMAIN sqlLog :
       /\ sqlLog[i].txn \in 1..txns
       /\ IF i = 1
            THEN sqlLog[i].op = "BEGIN"
            ELSE IF sqlLog[i - 1].txn = sqlLog[i].txn
                   THEN MayFollow(sqlLog[i - 1], sqlLog[i])
                   ELSE /\ sqlLog[i - 1].txn < sqlLog[i].txn
                        /\ sqlLog[i].op = "BEGIN"
  /\ dbpc = "exec" => openTxns = 1
  /\ dbOutcome = "resolved"
       => /\ txns = Len(committed)
          /\ Len(sqlLog) = txns * Len(StatementOrder)
          /\ \A i \in DOMAIN sqlLog :
               /\ sqlLog[i].ok
               /\ sqlLog[i].txn = ((i - 1) \div Len(StatementOrder)) + 1
               /\ sqlLog[i].op = StatementOrder[((i - 1) % Len(StatementOrder)) + 1]
               /\ sqlLog[i].op = "EXEC" => sqlLog[i].rows = committed[sqlLog[i].txn]

\* A purge of two chunks has resolved: ten statements, the procedure twice.
C28_Witness ==
  /\ dbOutcome = "resolved" /\ txns = 2 /\ Len(sqlLog) = 10
  /\ sqlLog[4].op = "EXEC" /\ sqlLog[9].op = "EXEC"

\* ---------------------------------------------------------------------------
\* scripts/delete-users.ts: the per-user deletion script.
\* ---------------------------------------------------------------------------

\* The public id no row of users carries; every other id has a row at the start.
UnknownUser == 0

PublicIdValues == 0..MaxPublicId

PublicIdLists == UNION {[1..n -> PublicIdValues] : n \in 0..MaxPublicIds}

\* The statements DatabaseService.deleteUser issues, by position in its body.
DryRunCounts == {"COUNT_EVENTS", "COUNT_PREFS", "COUNT_SESS"}
Deletes == {"DELETE_EVENTS", "DELETE_PREFS", "DELETE_SESS", "DELETE_USER"}
Rollbacks == {"ROLLBACK_NOTFOUND", "ROLLBACK_DRY", "ROLLBACK_CATCH"}
DbSteps == {"BEGIN", "CHECK", "AUDIT", "COMMIT"} \cup DryRunCounts \cup Deletes \cup Rollbacks

\* The SQL text sent at a position.
Statement(at) == IF at \in Rollbacks THEN "ROLLBACK" ELSE at

AfterQueryNoDryRun(at, found, dry) ==
  CASE at = "BEGIN" -> "CHECK"
    [] at = "CHECK" -> IF ~found THEN "ROLLBACK_NOTFOUND" ELSE "DELETE_EVENTS"
    [] at = "COUNT_EVENTS" -> "COUNT_PREFS"
    [] at = "COUNT_PREFS" -> "COUNT_SESS"
    [] at = "COUNT_SESS" -> "ROLLBACK_DRY"
    [] at = "DELETE_EVENTS" -> "DELETE_PREFS"
    [] at = "DELETE_PREFS" -> "DELETE_SESS"
    [] at = "DELETE_SESS" -> "DELETE_USER"
    [] at = "DELETE_USER" -> "AUDIT"
    [] at = "AUDIT" -> "COMMIT"

\* DatabaseService.deleteUser: the statement that follows a resultsSuccessful one.
\* found is checkResult.rowCount # 0.
AfterQuery(at, found, dry) ==
  CASE at = "BEGIN" -> "CHECK"
    [] at = "CHECK" -> IF ~found THEN "ROLLBACK_NOTFOUND"
                       ELSE IF dry THEN "COUNT_EVENTS" ELSE "DELETE_EVENTS"
    [] at = "COUNT_EVENTS" -> "COUNT_PREFS"
    [] at = "COUNT_PREFS" -> "COUNT_SESS"
    [] at = "COUNT_SESS" -> "ROLLBACK_DRY"
    [] at = "DELETE_EVENTS" -> "DELETE_PREFS"
    [] at = "DELETE_PREFS" -> "DELETE_SESS"
    [] at = "DELETE_SESS" -> "DELETE_USER"
    [] at = "DELETE_USER" -> "AUDIT"
    [] at = "AUDIT" -> "COMMIT"

\* for (const publicId of args.publicIds)
PublicId == args.publicIds[cursor]

\* The main program takes no step while the script runs.
MainUnused ==
  /\ input = Consumed /\ dryRun = FALSE /\ aborted = FALSE /\ pc = "exited"
  /\ allIds = <<>> /\ report = InitialReport /\ dbOutcome = "none"
  /\ error = "none" /\ exitCode = -1 /\ files = {}
  /\ chunkSize = 0 /\ start = 0 /\ dbpc = "idle" /\ txns = 0
  /\ checkedOut = 0 /\ poolOpen = FALSE
  /\ openTxns = 0 /\ sqlLog = <<>> /\ staging = NoTable /\ committed = <<>>
  /\ batchSize = 1 /\ concurrentBatches = 1 /\ maxAttempts = 1
  /\ chunks = <<>> /\ batch = <<>> /\ results = <<>>

\* executeDeleteions up to the first iteration of its loop, with args as
\* parseArgs returned them and the configuration loadConfig read.
ScriptInit ==
  /\ MainUnused
  /\ args \in [publicIds : PublicIdLists, dryRun : BOOLEAN]
  /\ apiKeys \in BOOLEAN
  /\ maxRetries \in 0..MaxRetries
  /\ users = PublicIdValues \ {UnknownUser}
  /\ cursor = 1
  /\ step = "loop"
  /\ stmts = <<>>
  /\ clients = 0
  /\ ampAttempt = 0
  /\ posts = 0
  /\ waited = 0
  /\ resultsSuccessful = <<>>
  /\ resultsFailed = <<>>
  /\ totalAmplitudeDeleted = 0
  /\ status = -1

\* process.exit(1) of the catch block of executeDeleteions.
FatalError ==
  /\ step' = "exited"
  /\ status' = 1
  /\ UNCHANGED <<cursor, resultsSuccessful, resultsFailed, totalAmplitudeDeleted, ampAttempt>>

\* executeDeleteions: results.resultsFailed.push(...); continue
DbFailed(message) ==
  /\ resultsFailed' = Append(resultsFailed, [publicId |-> PublicId, error |-> message])
  /\ cursor' = cursor + 1
  /\ step' = "loop"
  /\ UNCHANGED <<resultsSuccessful, totalAmplitudeDeleted, ampAttempt, status>>

\* executeDeleteions: the rest of the iteration once amplitudeService.deleteUser
\* has returned.
Counted(success) ==
  /\ totalAmplitudeDeleted' = totalAmplitudeDeleted + (IF success THEN 1 ELSE 0)
  /\ resultsSuccessful' = Append(resultsSuccessful, PublicId)
  /\ cursor' = cursor + 1
  /\ step' = "loop"
  /\ UNCHANGED <<resultsFailed, status>>

\* DatabaseService.deleteUser: const client = await this.pool.connect()
Connect(ok) ==
  /\ step = "loop"
  /\ cursor <= Len(args.publicIds)
  /\ stmts' = <<>>
  /\ posts' = 0
  /\ waited' = 0
  /\ IF ok
       THEN /\ clients' = clients + 1
            /\ step' = "BEGIN"
            /\ UNCHANGED <<cursor, resultsSuccessful, resultsFailed, totalAmplitudeDeleted,
                           ampAttempt, status>>
       ELSE /\ FatalError
            /\ UNCHANGED clients
  /\ UNCHANGED <<args, apiKeys, maxRetries, users, mainVars, dbVars, ampVars>>

\* DatabaseService.deleteUser: one await client.query(...) and what follows it
\* up to the next await; the finally block releases the client on every return
\* and throw.
Query(ok) ==
  /\ step \in DbSteps
  /\ stmts' = Append(stmts, [op |-> Statement(step), ok |-> ok])
  /\ users' = IF ok /\ step = "COMMIT" THEN users \ {PublicId} ELSE users
  /\ IF ~ok
       THEN IF step = "ROLLBACK_CATCH"
              THEN /\ clients' = clients - 1
                   /\ FatalError
              ELSE /\ step' = "ROLLBACK_CATCH"
                   /\ UNCHANGED <<clients, cursor, resultsSuccessful, resultsFailed,
                                  totalAmplitudeDeleted, ampAttempt, status>>
       ELSE CASE step = "ROLLBACK_NOTFOUND" ->
                   /\ clients' = clients - 1
                   /\ DbFailed("User not found")
              [] step = "ROLLBACK_CATCH" ->
                   /\ clients' = clients - 1
                   /\ DbFailed("error.message")
              [] step \in {"ROLLBACK_DRY", "COMMIT"} ->
                   /\ clients' = clients - 1
                   /\ step' = "amplitude"
                   /\ UNCHANGED <<cursor, resultsSuccessful, resultsFailed, totalAmplitudeDeleted,
                                  ampAttempt, status>>
              [] OTHER ->
                   /\ step' = AfterQuery(step, PublicId \in users, args.dryRun)
                   /\ UNCHANGED <<clients, cursor, resultsSuccessful, resultsFailed,
                                  totalAmplitudeDeleted, ampAttempt, status>>
  /\ UNCHANGED <<args, apiKeys, maxRetries, posts, waited, mainVars, dbVars, ampVars>>

SkipsAmplitudeNever(keys, dry) == FALSE

\* AmplitudeService.deleteUser: the two early returns.
SkipsAmplitude(keys, dry) == ~keys \/ dry

\* AmplitudeService.deleteUser up to its first await.
AmplitudeDeleteUser ==
  /\ step = "amplitude"
  /\ IF SkipsAmplitude(apiKeys, args.dryRun)
       THEN /\ Counted(TRUE)
            /\ UNCHANGED ampAttempt
       ELSE IF 1 <= maxRetries
              THEN /\ ampAttempt' = 1
                   /\ step' = "post"
                   /\ UNCHANGED <<cursor, resultsSuccessful, resultsFailed, totalAmplitudeDeleted, status>>
              ELSE /\ Counted(FALSE)
                   /\ UNCHANGED ampAttempt
  /\ UNCHANGED <<args, apiKeys, maxRetries, users, stmts, clients, posts, waited,
                 mainVars, dbVars, ampVars>>

\* AmplitudeService.deleteUser: await axios.post(...) ends with status 200,
\* with another status, or by throwing.
Post(outcome) ==
  /\ step = "post"
  /\ posts' = posts + 1
  /\ CASE outcome = "200" ->
            /\ Counted(TRUE)
            /\ UNCHANGED ampAttempt
       [] outcome = "other" ->
            IF ampAttempt + 1 <= maxRetries
              THEN /\ ampAttempt' = ampAttempt + 1
                   /\ UNCHANGED <<step, cursor, resultsSuccessful, resultsFailed,
                                  totalAmplitudeDeleted, status>>
              ELSE /\ Counted(FALSE)
                   /\ UNCHANGED ampAttempt
       [] outcome = "throw" ->
            IF ampAttempt < maxRetries
              THEN /\ step' = "backoff"
                   /\ UNCHANGED <<ampAttempt, cursor, resultsSuccessful, resultsFailed,
                                  totalAmplitudeDeleted, status>>
              ELSE /\ Counted(FALSE)
                   /\ UNCHANGED ampAttempt
  /\ UNCHANGED <<args, apiKeys, maxRetries, users, stmts, clients, waited,
                 mainVars, dbVars, ampVars>>

\* AmplitudeService.deleteUser: the setTimeout of the catch block fires.
Backoff ==
  /\ step = "backoff"
  /\ waited' = waited + 1000 * Pow2(ampAttempt)
  /\ ampAttempt' = ampAttempt + 1
  /\ step' = "post"
  /\ UNCHANGED <<args, apiKeys, maxRetries, users, cursor, stmts, clients, posts,
                 resultsSuccessful, resultsFailed, totalAmplitudeDeleted, status,
                 mainVars, dbVars, ampVars>>

\* executeDeleteions after the loop: the summary and process.exit(exitCode).
Summary ==
  /\ step = "loop"
  /\ cursor > Len(args.publicIds)
  /\ status' = IF Len(resultsFailed) > 0 THEN 1 ELSE 0
  /\ step' = "exited"
  /\ UNCHANGED <<args, apiKeys, maxRetries, users, cursor, stmts, clients,
                 ampAttempt, posts, waited, resultsSuccessful, resultsFailed,
                 totalAmplitudeDeleted,
                 mainVars, dbVars, ampVars>>

ScriptNext ==
  \/ \E ok \in BOOLEAN : Connect(ok)
  \/ \E ok \in BOOLEAN : Query(ok)
  \/ AmplitudeDeleteUser
  \/ \E outcome \in {"200", "other", "throw"} : Post(outcome)
  \/ Backoff
  \/ Summary

ScriptSpec == ScriptInit /\ [][ScriptNext]_vars

\* Statements that change rows, or make changes durable.
Writes == Deletes \cup {"AUDIT", "COMMIT"}

\* DatabaseService.deleteUser has returned or thrown for the current user.
DbCallOver == step \in {"amplitude", "post", "backoff", "loop", "exited"} /\ stmts # <<>>

C30_DelayOnlyBetweenAttempts ==
  \A b \in DOMAIN batch :
    batch[b].pc = "sleep" => batch[b].attempt + 1 < maxAttempts

C32_LoopsAdvance ==
  /\ (pc = "db" /\ dbpc = "connect") => chunkSize >= 1
  /\ pc # "hung"

\* Sequence s is an initial part of sequence t.
IsPrefix(s, t) == Len(s) <= Len(t) /\ SubSeq(t, 1, Len(s)) = s

\* C33: a termination signal received while runGdprSqlWithTempTable is running
\* only sets a flag and leaves the purge where it is; the chunks committed stay
\* committed; when the purge returns with the flag set, main goes to its catch
\* block without calling deleteUsersAmplitude, and if the purge resolved every
\* chunk has been committed; the run then exits with status 1 without any
\* request sent.
C33_SignalDuringPurge ==
  /\ [][(pc = "db" /\ aborted' # aborted) => (pc' = "db" /\ UNCHANGED dbVars)]_vars
  /\ [][IsPrefix(committed, committed')]_vars
  /\ [][(pc = "db" /\ aborted /\ pc' # "db")
          => /\ pc' = "fatal" /\ chunks' = <<>> /\ batch' = <<>>
             /\ dbOutcome' = "resolved"
                  => (error' = "abortedAfterDb" /\ Flatten(committed') = allIds)]_vars
  /\ []((pc = "exited" /\ error \in {"abortedAfterDb", "db"})
          => (exitCode = 1 /\ batch = <<>> /\ results = <<>>))

\* A signal arrived after the first of two chunks committed; the second chunk
\* was committed all the same and the run exited 1 without the external stage.
C33_Witness ==
  /\ pc = "exited" /\ aborted /\ error = "abortedAfterDb" /\ exitCode = 1
  /\ Len(committed) = 2 /\ Flatten(committed) = allIds /\ batch = <<>>

\* C34: an input array with an element that is no identifier string (here a
\* JSON number) is rejected as an input error before anything is purged: the
\* step that reads it goes to the catch block with the input error.
C34_ElementsValidated ==
  [][(pc = "read" /\ input.kind = "array" /\ \E i \in DOMAIN input.arr : input.arr[i] < 0)
       => (pc' = "fatal" /\ error' = "input")]_vars

\* C35: every identifier recorded ok:true belongs to a batch whose task
\* received a 2xx response to one of its requests; a batch that used up its
\* attempts, met a 4xx or a transport error, or made no request at all has no
\* ok:true entry.
C35_OkOnlyAfter2xx ==
  /\ \A e \in DOMAIN results :
       results[e].ok
         => \E b \in DOMAIN batch :
              /\ results[e].id \in Range(chunks[b])
              /\ batch[b].ended = "ok" /\ batch[b].calls >= 1
  /\ \A b \in DOMAIN batch :
       batch[b].ended # "ok"
         => \A e \in DOMAIN results :
              results[e].id \in Range(chunks[b]) => ~results[e].ok

\* One batch was answered 2xx on its second request while another one used up
\* its attempts: the result list holds an ok:true and an ok:false entry.
C35_Witness ==
  /\ \E b \in DOMAIN batch : batch[b].ended = "ok" /\ batch[b].calls = 2
  /\ \E b \in DOMAIN batch : batch[b].ended = "exhausted"
  /\ \E e, f \in DOMAIN results : results[e].ok /\ ~results[f].ok

\* C36: a client is checked out exactly while a chunk's transaction is being
\* worked on, never more than one at a time, and it is released when the chunk
\* ends, by COMMIT or after the ROLLBACK attempt, failed or not; the pool
\* exists exactly while runGdprSqlWithTempTable runs, so that once the purge
\* has returned, resolved or rejected, no client is held and the pool is ended.
C36_ConnectionsReleased ==
  /\ checkedOut \in {0, 1}
  /\ checkedOut = 1
       <=> (pc = "db" /\ dbpc \in {"begin", "create", "load", "readsql", "exec",
                                   "commit", "rollback"})
  /\ poolOpen <=> pc = "db"
  /\ dbOutcome # "none" => (checkedOut = 0 /\ ~poolOpen)

\* The purge was rejected after a chunk failed and its ROLLBACK failed too: the
\* client was released and the pool ended.
C36_Witness ==
  /\ dbOutcome = "rejected" /\ checkedOut = 0 /\ ~poolOpen
  /\ sqlLog # <<>>
  /\ sqlLog[Len(sqlLog)].op = "ROLLBACK" /\ ~sqlLog[Len(sqlLog)].ok
  /\ Len(committed) = 1

\* C37: the script handles one user at a time, in input order; a request to
\* Amplitude is sent only for the user whose database deletion has just
\* returned success; and whenever a user's database deletion ends without
\* success, that user is appended to results.failed, no request is sent for
\* it, and the loop goes on to the next user.
C37_PerUserIsolation ==
  [][/\ cursor' \in {cursor, cursor + 1}
     /\ step' = "amplitude"
          => (step \in {"COMMIT", "ROLLBACK_DRY"} /\ stmts'[Len(stmts')].ok)
     /\ posts' > posts
          => (posts' = posts + 1 /\ step = "post" /\ cursor <= Len(args.publicIds))
     /\ (step \in DbSteps /\ step' \notin DbSteps /\ step' # "amplitude")
          => /\ step' = "loop" /\ cursor' = cursor + 1 /\ posts' = 0
             /\ Len(resultsFailed') = Len(resultsFailed) + 1
             /\ resultsFailed'[Len(resultsFailed')].publicId = PublicId]_vars

\* The public ids listed in results.failed.
FailedIds == {resultsFailed[i].publicId : i \in DOMAIN resultsFailed}

\* executeDeleteions has printed its summary and exited.
SummaryPrinted == step = "exited" /\ cursor > Len(args.publicIds)

\* C38: when the summary is printed, every requested id is in exactly one of
\* results.successful and results.failed, the two lists together are as long
\* as args.publicIds, and the exit code is 1 exactly when results.failed is
\* not empty, so that a user whose Amplitude deletion alone failed is in
\* successful and does not make the exit code 1.
C38_SummaryAccounts ==
  SummaryPrinted
    => /\ Len(resultsSuccessful) + Len(resultsFailed) = Len(args.publicIds)
       /\ \A id \in Range(args.publicIds) :
            (id \in Range(resultsSuccessful)) # (id \in FailedIds)
       /\ status \in {0, 1}
       /\ status = 1 <=> resultsFailed # <<>>

\* The statements of a deletion that commits, in the order of the source.
CommitOrder ==
  <<"BEGIN", "CHECK", "DELETE_EVENTS", "DELETE_PREFS", "DELETE_SESS", "DELETE_USER",
    "AUDIT", "COMMIT">>

\* The statements of the current call that ended its transaction.
Enders == {i \in DOMAIN stmts : stmts[i].op \in {"COMMIT", "ROLLBACK"} /\ stmts[i].ok}

\* C39: DatabaseService.deleteUser holds a client exactly while it works on a
\* user; once it has returned or thrown, a transaction it began has been ended
\* by exactly one COMMIT or ROLLBACK, its last statement; and a COMMIT is sent
\* only on a run that is not a dry run, after the existence check, the four
\* deletes and the audit INSERT, each of which succeeded.
C39_TransactionsEnded ==
  /\ clients \in {0, 1}
  /\ clients = 1 <=> step \in DbSteps
  /\ (DbCallOver /\ stmts[1].ok) => Enders = {Len(stmts)}
  /\ \A i \in DOMAIN stmts :
       stmts[i].op = "COMMIT"
         => /\ ~args.dryRun
            /\ i = Len(CommitOrder)
            /\ \A j \in 1..i : stmts[j].op = CommitOrder[j]
            /\ \A j \in 1..(i - 1) : stmts[j].ok

====
